---- MODULE Spec2Model ----
(***************************************************************************)
(* Model of the podcast-to-youtube command (src/main.go): the sequential   *)
(* run of main, the range parser parseRange, the episode selection and the *)
(* per-episode pipeline of process.  External collaborators (HTTP, XML,    *)
(* OAuth, image generation, ffmpeg, the YouTube API, the file system)      *)
(* are modelled by their outcome: success or failure, chosen freely.       *)
(***************************************************************************)
EXTENDS Integers, Sequences, FiniteSets

\* ---- bounds of the model ------------------------------------------------
MaxTokenLen == 4    \* longest token typed at the range prompt
MaxFeedLen == 3     \* most items in the feed's first channel

\* ---- text ---------------------------------------------------------------
\* A string is a sequence of one-character strings.
Digits == <<"0", "1", "2", "3", "4", "5", "6", "7", "8", "9">>

IsDigit(c) == \E i \in 1..10 : Digits[i] = c

DigitVal(c) == (CHOOSE i \in 1..10 : Digits[i] = c) - 1

\* Characters a token typed at the range prompt is made of.
TokenChars == {"1", "-", "+", "x"}

Tokens == UNION {[1..n -> TokenChars] : n \in 0..MaxTokenLen}

\* Answers typed at the publish prompt.
Answers == {<<"Y">>, <<"y">>, <<>>, <<"n">>, <<"N">>, <<"n", "o">>,
            <<"y", "e", "s">>, <<"Y", "y">>}

\* error values
NoErr == "nil"

\* strings.Split(s, "-"): the parts of s between the dashes, one more part
\* than there are dashes.
RECURSIVE Split(_)
Split(s) ==
  IF \A i \in 1..Len(s) : s[i] # "-"
  THEN <<s>>
  ELSE LET i == CHOOSE j \in 1..Len(s) :
                  s[j] = "-" /\ \A h \in 1..(j-1) : s[h] # "-"
       IN <<SubSeq(s, 1, i-1)>> \o Split(SubSeq(s, i+1, Len(s)))

\* value of a non-empty sequence of digits, most significant first
RECURSIVE DecVal(_)
DecVal(ds) ==
  IF ds = <<>> THEN 0
  ELSE 10 * DecVal(SubSeq(ds, 1, Len(ds)-1)) + DigitVal(ds[Len(ds)])

\* strconv.Atoi on a string shorter than 19 characters (its fast path, which
\* cannot overflow): an optional sign, then one or more digits; anything else
\* is a syntax error and the number returned with it is 0.
Atoi(s) ==
  LET signed == s # <<>> /\ s[1] \in {"+", "-"}
      body == IF signed THEN Tail(s) ELSE s
  IN IF body = <<>> \/ \E i \in 1..Len(body) : ~IsDigit(body[i])
     THEN [n |-> 0, err |-> "syntax"]
     ELSE [n |-> IF signed /\ s[1] = "-" THEN 0 - DecVal(body) ELSE DecVal(body),
           err |-> NoErr]

\* parseRange with the single-number case returning (n, 0, err)
parseRangeSingleZero(s) ==
  LET ps == Split(s)
  IN IF Len(ps) = 1
     THEN LET a == Atoi(ps[1]) IN [first |-> a.n, last |-> 0, err |-> a.err]
     ELSE IF Len(ps) = 2
     THEN LET a == Atoi(ps[1])
              b == Atoi(ps[2])
          IN IF a.err # NoErr
             THEN [first |-> 0, last |-> 0, err |-> a.err]
             ELSE [first |-> a.n, last |-> b.n, err |-> b.err]
     ELSE [first |-> 0, last |-> 0, err |-> "format"]

\* parseRange with the two ends of a pair swapped
parseRangeSwapped(s) ==
  LET ps == Split(s)
  IN IF Len(ps) = 1
     THEN LET a == Atoi(ps[1]) IN [first |-> a.n, last |-> a.n, err |-> a.err]
     ELSE IF Len(ps) = 2
     THEN LET a == Atoi(ps[1])
              b == Atoi(ps[2])
          IN IF a.err # NoErr
             THEN [first |-> 0, last |-> 0, err |-> a.err]
             ELSE [first |-> b.n, last |-> a.n, err |-> b.err]
     ELSE [first |-> 0, last |-> 0, err |-> "format"]

\* parseRange that ignores the error of the second number of a pair
parseRangeLenient(s) ==
  LET ps == Split(s)
  IN IF Len(ps) = 1
     THEN LET a == Atoi(ps[1]) IN [first |-> a.n, last |-> a.n, err |-> a.err]
     ELSE IF Len(ps) = 2
     THEN LET a == Atoi(ps[1])
              b == Atoi(ps[2])
          IN IF a.err # NoErr
             THEN [first |-> 0, last |-> 0, err |-> a.err]
             ELSE [first |-> a.n, last |-> b.n, err |-> NoErr]
     ELSE [first |-> 0, last |-> 0, err |-> "format"]

\* parseRange: a single number n gives (n, n), a pair n-m gives (n, m); the
\* error is that of the number that failed to parse, or the format error
\* when there are more than two parts.
parseRange(s) ==
  LET ps == Split(s)
  IN IF Len(ps) = 1
     THEN LET a == Atoi(ps[1]) IN [first |-> a.n, last |-> a.n, err |-> a.err]
     ELSE IF Len(ps) = 2
     THEN LET a == Atoi(ps[1])
              b == Atoi(ps[2])
          IN IF a.err # NoErr
             THEN [first |-> 0, last |-> 0, err |-> a.err]
             ELSE [first |-> a.n, last |-> b.n, err |-> b.err]
     ELSE [first |-> 0, last |-> 0, err |-> "format"]

\* ---- the feed --------------------------------------------------------------
\* An episode carries its Number (the feed's <order>) and its Link (the
\* item's <guid>, here the item's position in the document).
mkEpisodes(nums) == [i \in 1..Len(nums) |-> [Number |-> nums[i], Link |-> i]]

\* The Numbers an item of the feed may carry; 0 is what an item without an
\* <order> element decodes to.
EpisodeNumbers == {0, 1, 11}

\* The item Numbers of the first channel of a feed, in document order;
\* Numbers may repeat and need not be contiguous.
Feeds == UNION {[1..n -> EpisodeNumbers] : n \in 0..MaxFeedLen}

\* the selection loop of main with a strict lower bound
selectLoopStrict(es, f, t) ==
  LET RECURSIVE go(_)
      go(rest) ==
        IF rest = <<>> THEN <<>>
        ELSE (IF f < Head(rest).Number /\ Head(rest).Number <= t
              THEN <<Head(rest)>> ELSE <<>>) \o go(Tail(rest))
  IN go(es)

\* The selection loop of main: walk the episodes in feed order and append
\* each one whose Number lies in [f, t].
selectLoop(es, f, t) ==
  LET RECURSIVE go(_)
      go(rest) ==
        IF rest = <<>> THEN <<>>
        ELSE (IF f <= Head(rest).Number /\ Head(rest).Number <= t
              THEN <<Head(rest)>> ELSE <<>>) \o go(Tail(rest))
  IN go(es)

\* the publish test accepting every answer that starts with y or Y
proceedsOnPrefix(a) == a = <<>> \/ a[1] \in {"Y", "y"}

\* The test main applies to the answer at the publish prompt.
proceeds(a) == a = <<"Y">> \/ a = <<"y">> \/ a = <<>>

\* ---- state ----------------------------------------------------------------
VARIABLES
  pc,          \* where the run is
  eps,         \* episodes returned by fetchFeed
  answer,      \* the last token read from standard input
  from, to,    \* the range returned by parseRange
  err,         \* the error returned by parseRange
  selected,    \* the episodes main selected
  client,      \* TRUE once authedClient returned a client
  idx,         \* position in selected of the episode being processed
  tmpDir,      \* the temp directory of the running process call (0: none)
  tmpDirs,     \* the temp directories that exist on disk
  created,     \* number of temp directories created so far
  procErr,     \* the error the running process call will return
  uploaded,    \* episodes whose upload to YouTube completed
  exitStatus,  \* exit status of the program (-1 while it runs)
  stderr,      \* the failure printed on standard error ("" when none)
  warnings,    \* number of "could not remove" lines logged
  log          \* the calls made so far: <<operation, episode index, ok>>

vars == <<pc, eps, answer, from, to, err, selected, client, idx, tmpDir,
          tmpDirs, created, procErr, uploaded, exitStatus, stderr, warnings,
          log>>

Init ==
  /\ pc = "fetch"
  /\ eps = <<>>
  /\ answer = <<>>
  /\ from = 0
  /\ to = 0
  /\ err = NoErr
  /\ selected = <<>>
  /\ client = FALSE
  /\ idx = 0
  /\ tmpDir = 0
  /\ tmpDirs = {}
  /\ created = 0
  /\ procErr = NoErr
  /\ uploaded = <<>>
  /\ exitStatus = -1
  /\ stderr = ""
  /\ warnings = 0
  /\ log = <<>>

Logged(op, k, ok) == log' = Append(log, <<op, k, ok>>)

\* failf exiting with status 0
failfStatusZero(msg) ==
  /\ pc' = "exited"
  /\ exitStatus' = 0
  /\ stderr' = msg

\* failf: print the message on standard error and exit with status 1.
failf(msg) ==
  /\ pc' = "exited"
  /\ exitStatus' = 1
  /\ stderr' = msg

\* ---- main -----------------------------------------------------------------
\* fetchFeed and its check in main.  A feed without a channel makes
\* data.Channel[0] panic: the runtime prints the panic and exits with 2.
FetchFeed ==
  /\ pc = "fetch"
  /\ \E outcome \in {"getfail", "decodefail", "nochannel", "ok"} :
       /\ Logged("fetchFeed", 0, outcome = "ok")
       /\ CASE outcome = "getfail" ->
                 failf("could not get the feed") /\ UNCHANGED eps
            [] outcome = "decodefail" ->
                 failf("could not decode feed") /\ UNCHANGED eps
            [] outcome = "nochannel" ->
                 /\ pc' = "exited"
                 /\ exitStatus' = 2
                 /\ stderr' = "panic: index out of range"
                 /\ UNCHANGED eps
            [] outcome = "ok" ->
                 /\ \E nums \in Feeds : eps' = mkEpisodes(nums)
                 /\ pc' = "readRange"
                 /\ UNCHANGED <<exitStatus, stderr>>
  /\ UNCHANGED <<answer, from, to, err, selected, client, idx, tmpDir,
                 tmpDirs, created, procErr, uploaded, warnings>>

\* The range prompt: read a token, parse it, fail on a parse error.
ReadRange ==
  /\ pc = "readRange"
  /\ \E tok \in Tokens :
       LET r == parseRange(tok)
       IN /\ answer' = tok
          /\ from' = r.first
          /\ to' = r.last
          /\ err' = r.err
          /\ Logged("parseRange", 0, r.err = NoErr)
          /\ IF r.err # NoErr
             THEN failf("is an invalid range")
             ELSE pc' = "select" /\ UNCHANGED <<exitStatus, stderr>>
  /\ UNCHANGED <<eps, selected, client, idx, tmpDir, tmpDirs, created,
                 procErr, uploaded, warnings>>

\* Select that goes on to the prompt with an empty selection
SelectNoEmptyCheck ==
  /\ pc = "select"
  /\ selected' = selectLoop(eps, from, to)
  /\ Logged("select", 0, selected' # <<>>)
  /\ pc' = "prompt"
  /\ UNCHANGED <<exitStatus, stderr>>
  /\ UNCHANGED <<eps, answer, from, to, err, client, idx, tmpDir, tmpDirs,
                 created, procErr, uploaded, warnings>>

\* The selection loop and the check that something was selected.
Select ==
  /\ pc = "select"
  /\ selected' = selectLoop(eps, from, to)
  /\ Logged("select", 0, selected' # <<>>)
  /\ IF Len(selected') = 0
     THEN failf("no episodes selected")
     ELSE pc' = "prompt" /\ UNCHANGED <<exitStatus, stderr>>
  /\ UNCHANGED <<eps, answer, from, to, err, client, idx, tmpDir, tmpDirs,
                 created, procErr, uploaded, warnings>>

\* The publish prompt: any answer but Y, y or the empty one returns from
\* main, which ends the program with status 0.
Prompt ==
  /\ pc = "prompt"
  /\ \E a \in Answers :
       /\ answer' = a
       /\ Logged("publishPrompt", 0, TRUE)
       /\ IF ~proceeds(a)
          THEN pc' = "exited" /\ exitStatus' = 0
          ELSE pc' = "auth" /\ UNCHANGED exitStatus
  /\ UNCHANGED <<eps, from, to, err, selected, client, idx, tmpDir, tmpDirs,
                 created, procErr, uploaded, stderr, warnings>>

\* authedClient and its check in main: reading the secrets file, parsing the
\* config or exchanging the code may fail.
Auth ==
  /\ pc = "auth"
  /\ \E outcome \in {"readfail", "parsefail", "exchangefail", "ok"} :
       /\ Logged("authedClient", 0, outcome = "ok")
       /\ IF outcome # "ok"
          THEN failf("could not authenticate with YouTube") /\ UNCHANGED <<client, idx>>
          ELSE /\ client' = TRUE
               /\ idx' = 1
               /\ pc' = "loop"
               /\ UNCHANGED <<exitStatus, stderr>>
  /\ UNCHANGED <<eps, answer, from, to, err, selected, tmpDir, tmpDirs,
                 created, procErr, uploaded, warnings>>

\* The head of the processing loop: call process on the next selected
\* episode, or fall off the end of main (status 0).
Loop ==
  /\ pc = "loop"
  /\ IF idx <= Len(selected)
     THEN /\ pc' = "tempDir"
          /\ procErr' = NoErr
          /\ Logged("process", idx, TRUE)
          /\ UNCHANGED exitStatus
     ELSE /\ pc' = "exited"
          /\ exitStatus' = 0
          /\ UNCHANGED <<procErr, log>>
  /\ UNCHANGED <<eps, answer, from, to, err, selected, client, idx, tmpDir,
                 tmpDirs, created, uploaded, stderr, warnings>>

\* ---- process ---------------------------------------------------------------
mainVars == <<eps, answer, from, to, err, selected, client, idx, exitStatus,
              stderr>>

\* A step of process after the temp directory exists: on success go on to
\* the next step, on failure set the wrapped error and return through the
\* deferred removal.
Step(op, here, next, msg) ==
  /\ pc = here
  /\ \E ok \in BOOLEAN :
       /\ Logged(op, idx, ok)
       /\ IF ok
          THEN pc' = next /\ UNCHANGED procErr
          ELSE pc' = "defer" /\ procErr' = msg

\* ioutil.TempDir: on failure process returns before the removal is deferred.
TempDir ==
  /\ pc = "tempDir"
  /\ \E ok \in BOOLEAN :
       /\ Logged("TempDir", idx, ok)
       /\ IF ok
          THEN /\ created' = created + 1
               /\ tmpDir' = created + 1
               /\ tmpDirs' = tmpDirs \cup {created + 1}
               /\ pc' = "generate"
               /\ UNCHANGED procErr
          ELSE /\ procErr' = "could not create temp directory"
               /\ pc' = "return"
               /\ UNCHANGED <<created, tmpDir, tmpDirs>>
  /\ UNCHANGED <<mainVars, uploaded, warnings>>

\* image.Generate
Generate ==
  /\ Step("Generate", "generate", "writePNG", "could not generate image")
  /\ UNCHANGED <<mainVars, tmpDir, tmpDirs, created, uploaded, warnings>>

\* writePNG of the slide into the temp directory
WritePNG ==
  /\ Step("writePNG", "writePNG", "ffmpeg", "could not create image")
  /\ UNCHANGED <<mainVars, tmpDir, tmpDirs, created, uploaded, warnings>>

\* the encoder step going on to the title although the encoder failed
FfmpegIgnoreError ==
  /\ pc = "ffmpeg"
  /\ \E ok \in BOOLEAN :
       /\ Logged("ffmpeg", idx, ok)
       /\ pc' = "title"
       /\ UNCHANGED procErr
  /\ UNCHANGED <<mainVars, tmpDir, tmpDirs, created, uploaded, warnings>>

\* ffmpeg: run the external encoder
Ffmpeg ==
  /\ Step("ffmpeg", "ffmpeg", "title", "could not create video")
  /\ UNCHANGED <<mainVars, tmpDir, tmpDirs, created, uploaded, warnings>>

\* titleTmpl.Execute; the description and the tags that follow cannot fail
Title ==
  /\ Step("title", "title", "upload", "could not create video title from template")
  /\ UNCHANGED <<mainVars, tmpDir, tmpDirs, created, uploaded, warnings>>

\* upload: creating the service, opening the video or the insert call may
\* fail; the video is on YouTube only when the insert call succeeded.
Upload ==
  /\ pc = "upload"
  /\ \E outcome \in {"newfail", "openfail", "insertfail", "ok"} :
       /\ Logged("upload", idx, outcome = "ok")
       /\ IF outcome = "ok"
          THEN uploaded' = Append(uploaded, selected[idx]) /\ UNCHANGED procErr
          ELSE procErr' = "could not upload to YouTube" /\ UNCHANGED uploaded
  /\ pc' = "defer"
  /\ UNCHANGED <<mainVars, tmpDir, tmpDirs, created, warnings>>

\* the deferred removal running only when process succeeded
DeferOnSuccessOnly ==
  /\ pc = "defer"
  /\ IF procErr = NoErr
     THEN /\ Logged("RemoveAll", idx, TRUE)
          /\ tmpDirs' = tmpDirs \ {tmpDir}
     ELSE UNCHANGED <<log, tmpDirs>>
  /\ tmpDir' = 0
  /\ pc' = "return"
  /\ UNCHANGED <<mainVars, created, procErr, uploaded, warnings>>

\* The deferred os.RemoveAll(tmpDir): a failure is logged, the directory
\* stays, and the error process returns is the one already set.
Defer ==
  /\ pc = "defer"
  /\ \E ok \in BOOLEAN :
       /\ Logged("RemoveAll", idx, ok)
       /\ IF ok
          THEN tmpDirs' = tmpDirs \ {tmpDir} /\ UNCHANGED warnings
          ELSE warnings' = warnings + 1 /\ UNCHANGED tmpDirs
  /\ tmpDir' = 0
  /\ pc' = "return"
  /\ UNCHANGED <<mainVars, created, procErr, uploaded>>

\* the loop body going on to the next episode after an error
ReturnContinue ==
  /\ pc = "return"
  /\ pc' = "loop"
  /\ idx' = idx + 1
  /\ UNCHANGED <<exitStatus, stderr>>
  /\ UNCHANGED <<eps, answer, from, to, err, selected, client, tmpDir,
                 tmpDirs, created, procErr, uploaded, warnings, log>>

\* The body of the processing loop after process returned: fail on an error,
\* else move to the next selected episode.
Return ==
  /\ pc = "return"
  /\ IF procErr # NoErr
     THEN failf("episode") /\ UNCHANGED idx
     ELSE /\ pc' = "loop"
          /\ idx' = idx + 1
          /\ UNCHANGED <<exitStatus, stderr>>
  /\ UNCHANGED <<eps, answer, from, to, err, selected, client, tmpDir,
                 tmpDirs, created, procErr, uploaded, warnings, log>>

Next ==
  \/ FetchFeed
  \/ ReadRange
  \/ Select
  \/ Prompt
  \/ Auth
  \/ Loop
  \/ TempDir
  \/ Generate
  \/ WritePNG
  \/ Ffmpeg
  \/ Title
  \/ Upload
  \/ Defer
  \/ Return

Spec == Init /\ [][Next]_vars

\* ---- type correctness -----------------------------------------------------
TypeOK ==
  /\ pc \in {"fetch", "readRange", "select", "prompt", "auth", "loop",
             "tempDir", "generate", "writePNG", "ffmpeg", "title", "upload",
             "defer", "return", "exited"}
  /\ exitStatus \in {-1, 0, 1, 2}
  /\ (pc = "exited") = (exitStatus # -1)
  /\ idx \in 0..(Len(selected) + 1)
  /\ tmpDirs \subseteq 1..created

\* ---- reading the log -------------------------------------------------------
Events(op) == {i \in 1..Len(log) : log[i][1] = op}

EventsOf(op, k) == {i \in Events(op) : log[i][2] = k}

StepOps == {"TempDir", "Generate", "writePNG", "ffmpeg", "title", "upload"}

\* the failed calls other than the deferred removal
Failures == {i \in 1..Len(log) : log[i][1] # "RemoveAll" /\ ~log[i][3]}

\* the range token is still in answer: parsed, and no publish prompt yet
RangeTokenHeld == Events("parseRange") # {} /\ Events("publishPrompt") = {}

Dashes(s) == {i \in 1..Len(s) : s[i] = "-"}

IsInt(s) == Atoi(s).err = NoErr

InRange(e) == from <= e.Number /\ e.Number <= to

\* ---- C1 -------------------------------------------------------------------
\* C1 (as stated): for every token that is a valid base-10 integer N, with an
\* optional leading '-' or '+', parseRange returns first = N, last = N and a
\* nil error.
C1_Original ==
  (RangeTokenHeld /\ IsInt(answer))
    => (from = Atoi(answer).n /\ to = Atoi(answer).n /\ err = NoErr)

\* C1 (amended): for every token without a '-' that is a valid base-10
\* integer N (digits, optionally after a '+'), parseRange returns first = N,
\* last = N and a nil error.
C1_SingleNumber ==
  (RangeTokenHeld /\ IsInt(answer) /\ Dashes(answer) = {})
    => (from = Atoi(answer).n /\ to = Atoi(answer).n /\ err = NoErr)

C1_Witness ==
  /\ RangeTokenHeld
  /\ answer = <<"+", "1", "1">>
  /\ from = 11 /\ to = 11 /\ err = NoErr

\* ---- C2 -------------------------------------------------------------------
\* the filter of main selects nothing when the range is reversed
ReversedSelectsNothing ==
  (Events("select") # {} /\ to < from)
    => (selected = <<>> /\ err = NoErr /\ stderr = "no episodes selected")

\* C2 (as stated): for every token N-M with N and M valid base-10 integers
\* (signed ones included), parseRange returns first = N, last = M and a nil
\* error; when M < N the filter of main selects no episode.
C2_Original ==
  /\ RangeTokenHeld =>
       \A i \in Dashes(answer) :
         LET n == SubSeq(answer, 1, i-1)
             m == SubSeq(answer, i+1, Len(answer))
         IN (IsInt(n) /\ IsInt(m))
              => (from = Atoi(n).n /\ to = Atoi(m).n /\ err = NoErr)
  /\ ReversedSelectsNothing

\* C2 (amended): for every token N-M with exactly one '-', N and M valid
\* base-10 integers written without a '-' sign, parseRange returns
\* first = N, last = M and a nil error, whether or not N <= M; when M < N the
\* filter of main selects no episode and parseRange reported no error.
C2_Pair ==
  /\ (RangeTokenHeld /\ Cardinality(Dashes(answer)) = 1) =>
       \A i \in Dashes(answer) :
         LET n == SubSeq(answer, 1, i-1)
             m == SubSeq(answer, i+1, Len(answer))
         IN (IsInt(n) /\ IsInt(m))
              => (from = Atoi(n).n /\ to = Atoi(m).n /\ err = NoErr)
  /\ ReversedSelectsNothing

C2_Witness ==
  /\ RangeTokenHeld
  /\ answer = <<"1", "1", "-", "1">>
  /\ from = 11 /\ to = 1 /\ err = NoErr
  /\ Events("select") # {}
  /\ \E i \in 1..Len(eps) : eps[i].Number \in {1, 11}
  /\ selected = <<>>

\* ---- C3 -------------------------------------------------------------------
\* a token with more than one '-', or with a part that is not a number
BadToken(s) ==
  \/ Cardinality(Dashes(s)) > 1
  \/ Dashes(s) = {} /\ ~IsInt(s)
  \/ \E i \in Dashes(s) :
       /\ Cardinality(Dashes(s)) = 1
       /\ ~IsInt(SubSeq(s, 1, i-1)) \/ ~IsInt(SubSeq(s, i+1, Len(s)))

\* C3: for every token with more than one '-', or with a non-numeric part,
\* parseRange returns an error and main ends with the invalid-range failure
\* without selecting anything.
C3_BadTokenFails ==
  (RangeTokenHeld /\ BadToken(answer))
    => /\ err # NoErr
       /\ pc = "exited" /\ exitStatus = 1 /\ stderr = "is an invalid range"
       /\ Events("select") = {} /\ selected = <<>>
       /\ log[Len(log)][1] = "parseRange"

C3_Witness ==
  /\ pc = "exited"
  /\ answer = <<"1", "-">>
  /\ from = 1 /\ to = 0 /\ err # NoErr
  /\ stderr = "is an invalid range"
  /\ eps # <<>>

\* ---- C4 -------------------------------------------------------------------
\* positions in the feed of the episodes whose Number is in the range
Kept == {i \in 1..Len(eps) : InRange(eps[i])}

\* C4: the selection holds exactly the episodes with first <= Number <= last,
\* once per occurrence in the feed and in feed order.
C4_SelectionIsFilter ==
  Events("select") # {}
    => /\ Len(selected) = Cardinality(Kept)
       /\ \A j \in 1..Len(selected) :
            \E i \in Kept :
              /\ Cardinality({h \in Kept : h <= i}) = j
              /\ selected[j] = eps[i]

C4_Witness ==
  /\ Events("select") # {}
  /\ Len(eps) = 3
  /\ eps[1].Number = 11 /\ eps[2].Number = 0 /\ eps[3].Number = 11
  /\ from = 1 /\ to = 11
  /\ selected = <<eps[1], eps[3]>>

\* ---- C5 -------------------------------------------------------------------
\* C5: when no episode has its Number in the range, the run ends with the
\* "no episodes selected" failure and a non-zero status, with no publish
\* prompt, no authedClient and no process.
C5_EmptySelectionFails ==
  (Events("select") # {} /\ Kept = {})
    => /\ pc = "exited" /\ exitStatus # 0
       /\ stderr = "no episodes selected"
       /\ Events("publishPrompt") = {}
       /\ Events("authedClient") = {}
       /\ Events("process") = {}
       /\ ~client

C5_Witness ==
  /\ pc = "exited"
  /\ stderr = "no episodes selected"
  /\ Len(eps) = 2
  /\ from = 1 /\ to = 1
  /\ Events("authedClient") = {}

\* ---- C6 -------------------------------------------------------------------
Affirmative == {<<"Y">>, <<"y">>, <<>>}

\* C6: after the publish prompt the run goes on to authentication iff the
\* answer is Y, y or empty; otherwise it ends with status 0 and never calls
\* authedClient, process or upload.
C6_PublishPrompt ==
  Events("publishPrompt") # {}
    => IF answer \in Affirmative
       THEN pc = "auth" \/ Events("authedClient") # {}
       ELSE /\ pc = "exited" /\ exitStatus = 0
            /\ Events("authedClient") = {}
            /\ Events("process") = {}
            /\ Events("upload") = {}
            /\ uploaded = <<>>

C6_Witness ==
  /\ pc = "exited" /\ exitStatus = 0
  /\ answer = <<"y", "e", "s">>
  /\ Events("publishPrompt") # {}
  /\ selected # <<>>

\* ---- C7 -------------------------------------------------------------------
\* the episode process is working on, or returning from
InProcess == pc \in {"tempDir", "generate", "writePNG", "ffmpeg", "title",
                     "upload", "defer", "return"}

\* C7: the selected episodes are processed one at a time in selection order;
\* when a step fails for the k-th one the run ends with a non-zero status,
\* the uploads of episodes 1..k-1 stay completed, no step is started for a
\* later episode and no step of the k-th is run again.
C7_FirstFailureStops ==
  /\ \A i \in Events("process") :
       log[i][2] = Cardinality({j \in Events("process") : j <= i})
  /\ \A op \in StepOps : \A k \in 1..Len(selected) :
       Cardinality(EventsOf(op, k)) <= 1
  /\ \A i \in 1..Len(log) :
       (log[i][1] \in StepOps /\ ~log[i][3]) =>
         LET k == log[i][2]
         IN /\ idx = k
            /\ pc \in {"defer", "return", "exited"}
            /\ pc = "exited" => (exitStatus = 1 /\ stderr = "episode")
            /\ uploaded = SubSeq(selected, 1, k-1)
            /\ \A j \in 1..Len(log) : log[j][2] <= k
            /\ \A j \in (i+1)..Len(log) : log[j] \in {<<"RemoveAll", k, TRUE>>,
                                                      <<"RemoveAll", k, FALSE>>}
  /\ \A k \in 1..Len(uploaded) :
       uploaded[k] = selected[k] /\ EventsOf("upload", k) # {}

C7_Witness ==
  /\ pc = "exited" /\ exitStatus = 1 /\ stderr = "episode"
  /\ Len(selected) = 3
  /\ idx = 2
  /\ uploaded = <<selected[1]>>
  /\ <<"ffmpeg", 2, FALSE>> = log[Len(log) - 1]

\* ---- C8 -------------------------------------------------------------------
\* process has returned for the k-th selected episode
Returned(k) == idx > k \/ (idx = k /\ pc \in {"return", "exited"})

\* C8: every temp directory process created has its removal attempted by the
\* time process returns, on success and on error alike, and before the
\* program exits; while no removal failed at most one temp directory exists
\* and none is left once process returned; a failed removal is only logged
\* and changes neither the error process returns nor the exit status.
C8_TempDirRemoved ==
  /\ \A k \in 1..Len(selected) :
       (<<"TempDir", k, TRUE>> \in {log[i] : i \in 1..Len(log)} /\ Returned(k))
         => EventsOf("RemoveAll", k) # {}
  /\ Cardinality(Events("RemoveAll")) <= created
  /\ warnings = Cardinality({i \in Events("RemoveAll") : ~log[i][3]})
  /\ warnings = 0 =>
       /\ Cardinality(tmpDirs) <= 1
       /\ pc \in {"return", "loop", "exited"} => tmpDirs = {}
  /\ pc = "return" =>
       ((procErr # NoErr) = (\E i \in Failures : log[i][2] = idx))
  /\ (pc = "exited" /\ Events("process") # {}) =>
       ((exitStatus = 1) = (\E i \in Failures : log[i][1] \in StepOps))

C8_Witness ==
  /\ pc = "exited" /\ exitStatus = 1
  /\ created = 2
  /\ tmpDirs = {}
  /\ warnings = 0
  /\ <<"Generate", 2, FALSE>> \in {log[i] : i \in 1..Len(log)}

\* ---- C9 -------------------------------------------------------------------
Declined ==
  /\ Events("publishPrompt") # {}
  /\ answer \notin Affirmative

Completed ==
  /\ selected # <<>>
  /\ \A k \in 1..Len(selected) : <<"upload", k, TRUE>> \in {log[i] : i \in 1..Len(log)}

\* the message main prints for a failed call
MessageOf(op) ==
  CASE op = "fetchFeed" -> {"could not get the feed", "could not decode feed",
                            "panic: index out of range"}
    [] op = "parseRange" -> {"is an invalid range"}
    [] op = "select" -> {"no episodes selected"}
    [] op = "authedClient" -> {"could not authenticate with YouTube"}
    [] OTHER -> {"episode"}

\* C9: the exit status is 0 exactly when every selected episode was processed
\* without error or the user declined to publish; every fatal condition ends
\* the run at once with a non-zero status and its own message, and no later
\* stage runs after it.
C9_ExitStatus ==
  /\ pc = "exited" =>
       /\ (exitStatus = 0) = (Declined \/ Completed)
       /\ (exitStatus = 0) = (Failures = {})
       /\ (exitStatus = 0) = (stderr = "")
  /\ Cardinality(Failures) <= 1
  /\ \A i \in Failures :
       /\ pc \in {"exited", "defer", "return"}
       /\ pc = "exited" => (exitStatus # 0 /\ stderr \in MessageOf(log[i][1]))
       /\ \A j \in (i+1)..Len(log) : log[j][1] = "RemoveAll"

C9_Witness ==
  /\ pc = "exited" /\ exitStatus = 1
  /\ stderr = "could not authenticate with YouTube"
  /\ log[Len(log)] = <<"authedClient", 0, FALSE>>
  /\ Len(selected) = 2

\* ---- C10 ------------------------------------------------------------------
\* the calls process makes, in order, before it uploads
BeforeUpload(k) ==
  <<<<"process", k, TRUE>>, <<"TempDir", k, TRUE>>, <<"Generate", k, TRUE>>,
    <<"writePNG", k, TRUE>>, <<"ffmpeg", k, TRUE>>, <<"title", k, TRUE>>>>

\* C10: authedClient is called at most once and before the first process;
\* for each episode upload is attempted at most once, and only after the
\* temp directory, the slide, the PNG, the encoder and the title succeeded
\* in this order; a failure of an earlier step makes process return an error
\* with no upload for that episode.
C10_CallOrder ==
  /\ Cardinality(Events("authedClient")) <= 1
  /\ \A i \in Events("process") :
       \E j \in Events("authedClient") : j < i /\ log[j][3] /\ client
  /\ \A k \in 1..Len(selected) : Cardinality(EventsOf("upload", k)) <= 1
  /\ \A i \in Events("upload") :
       /\ i > 6
       /\ SubSeq(log, i-6, i-1) = BeforeUpload(log[i][2])
  /\ \A i \in Failures :
       (log[i][1] \in StepOps \ {"upload"}) =>
         /\ EventsOf("upload", log[i][2]) = {}
         /\ pc \in {"defer", "return"} => procErr # NoErr

C10_Witness ==
  /\ Len(selected) = 2
  /\ Events("authedClient") # {}
  /\ EventsOf("upload", 1) # {}
  /\ EventsOf("upload", 2) # {}
  /\ pc = "defer"

====
